---- MODULE Spec2Model ----
(***************************************************************************)
(* Model of src/src/pool.js: ManagedInstance (lazy engine boot, one-holder *)
(* lock, wait queue with timeout, close) and InstancePool (getOrCreate,    *)
(* acquire, closeInstance, closeAll), and of the instance registry         *)
(* (src/unnamed/part_001) and the port allocator (src/unnamed/part_000).   *)
(*                                                                         *)
(* The program runs on one JavaScript thread.  Every asynchronous call is  *)
(* a task; a task runs without interruption up to its next await, and its  *)
(* continuation is a job on the promise job queue (microtasks), which is   *)
(* first-in first-out.  A job that only forwards a settled promise to the  *)
(* next promise of a chain is a hop.  Calls into the pool, socket events   *)
(* and engine completions arrive between jobs; timers fire only when the   *)
(* job queue is empty.                                                     *)
(***************************************************************************)
EXTENDS Integers, Sequences, FiniteSets, TLC

\* Bounds of the model.
MaxTasks == 3
MaxObjs == 2
MaxEngines == 2
MaxInstancesCfg == 2
MaxCallers == 2

DbNames == {"a", "b"}
Tasks == 1..MaxTasks
Objs == 1..MaxObjs
Engines == 1..MaxEngines

\* The processes of the host that use the registry and the allocator; a
\* process is identified by its pid.
Callers == 1..MaxCallers

\* The data directories the processes serve.
DataDirs == {"d1", "d2"}

VARIABLES
  maxInstances,   \* InstancePool.maxInstances
  autoProvision,  \* InstancePool.autoProvision
  instances,      \* InstancePool.instances: name -> ManagedInstance (0: absent)
  obj,            \* the ManagedInstance objects constructed so far
  engine,         \* the engines (PGlite objects) constructed so far
  task,           \* the asynchronous calls made so far
  sock,           \* the socket passed to each acquire call
  timers,         \* waiters whose setTimeout timer is armed
  microtasks,     \* the promise job queue
  regFile,        \* the registry file ~/.pglite-server/registry.json
  alive,          \* the pids of the processes that run
  foreign,        \* the ports of 127.0.0.1 that other programs have bound
  call,           \* the allocatePort call of each process
  cleaned         \* what cleanupStaleInstances returned to a caller that keeps it

vars == <<maxInstances, autoProvision, instances, obj, engine, task, sock,
          timers, microtasks, regFile, alive, foreign, call, cleaned>>

\* The state of the pool of one process, and the state of the host.
pool == <<maxInstances, autoProvision, instances, obj, engine, task, sock,
          timers, microtasks>>
host == <<regFile, alive, foreign, call, cleaned>>

\* ManagedInstance constructor: db = null, locked = false, activeSocket = null,
\* queue = [].  boots counts the engines constructed for the object,
\* initEvents the 'initialized' events it emitted, and closeCalled records
\* that close() was called on it (history, read by no action).
NewInstance(n) ==
  [name |-> n, db |-> 0, locked |-> FALSE, activeSocket |-> 0, queue |-> <<>>,
   boots |-> 0, initEvents |-> 0, closeCalled |-> FALSE]

NoInstance == NewInstance("none")

\* A call that has not been made.  enq and grant are the tickets of the
\* call's enqueueing and of its grant, and had holds the engine handles that
\* the instances of a close call stored when it was called (history, read by
\* no action).
NoTask ==
  [kind |-> "none", name |-> "none", pc |-> "none", obj |-> 0, eng |-> 0,
   handle |-> 0, chained |-> FALSE, cw |-> {}, pend |-> {}, ret |-> "none",
   enq |-> 0, grant |-> 0, had |-> {}]

NoSock == [closed |-> FALSE, errored |-> FALSE, onClose |-> 0, onError |-> 0]

Job(t, k, o, h) == [t |-> t, k |-> k, o |-> o, hops |-> h]

Started == {t \in Tasks : task[t].kind # "none"}
Created == {o \in Objs : obj[o].name # "none"}
Built == {e \in Engines : engine[e] # "none"}
PoolSize == Cardinality({n \in DbNames : instances[n] # 0})
NextTicket(f) == 1 + Cardinality({t \in Tasks : f[t] > 0})

\* The port range of the allocator (part_000, lines 4-5).
PORT_RANGE_START == 12000
PORT_RANGE_END == 12999
PortRange == PORT_RANGE_START..PORT_RANGE_END

\* A registry entry holds port and pid; started and version are read by no
\* code.  NoEntry stands for a dataDir without an entry.
NoEntry == [port |-> 0, pid |-> 0]
NoEntries == [d \in DataDirs |-> NoEntry]

\* The registry file does not exist.
NoFile == [state |-> "missing", instances |-> NoEntries]

\* A process that has not called allocatePort.  The preferred port is <<>>
\* for null and <<p>> for the port p.  phase tells whether the call probes
\* the preferred port or scans the range, cand is the port it probes and
\* held the port its probe server has bound.  quiet records that since the
\* call was made no step has changed the registry file, the live processes
\* or the ports other probes hold (history, read by no action).
NoCall ==
  [pc |-> "idle", dir |-> "none", pref |-> <<>>, phase |-> "none", cand |-> 0,
   held |-> 0, ret |-> "none", port |-> 0, quiet |-> FALSE]

\* No caller has kept a result of cleanupStaleInstances.  n is the number
\* returned last; tick changes with every result kept (history, read by no
\* action).
NoCount == [n |-> 0, tick |-> FALSE]

\* A host on which no process has used the registry yet, with the ports of
\* one of the sets of F bound by other programs.
HostInit(F) ==
  /\ cleaned = NoCount
  /\ regFile = NoFile
  /\ alive = Callers
  /\ foreign \in F
  /\ call = [c \in Callers |-> NoCall]

Init ==
  /\ HostInit({{}})
  /\ maxInstances \in 1..MaxInstancesCfg
  /\ autoProvision \in BOOLEAN
  /\ instances = [n \in DbNames |-> 0]
  /\ obj = [o \in Objs |-> NoInstance]
  /\ engine = [e \in Engines |-> "none"]
  /\ task = [t \in Tasks |-> NoTask]
  /\ sock = [t \in Tasks |-> NoSock]
  /\ timers = {}
  /\ microtasks = <<>>

----------------------------------------------------------------------------
\* A variant of NeedsBoot that boots on every call.
AlwaysBoot(d) == TRUE

\* ManagedInstance.initialize, line 46: boot only when no handle is stored.
NeedsBoot(d) == d = 0

\* ManagedInstance.initialize up to its first await, called by task t on
\* object o of the object table objs and the call table tasks: with a handle
\* stored it returns the handle at once; otherwise it constructs the engine, stores the handle
\* and awaits the engine's waitReady.
Initialize(t, o, objs, tasks) ==
  IF NeedsBoot(objs[o].db)
  THEN /\ Cardinality(Built) < MaxEngines
       /\ LET e == Cardinality(Built) + 1 IN
          /\ engine' = [engine EXCEPT ![e] = "booting"]
          /\ obj' = [objs EXCEPT ![o].db = e, ![o].boots = @ + 1]
          /\ task' = [tasks EXCEPT ![t].pc = "initWait", ![t].obj = o,
                                   ![t].eng = e]
          /\ UNCHANGED microtasks
  ELSE /\ obj' = objs
       /\ task' = [tasks EXCEPT ![t].pc = "gocResume", ![t].obj = o,
                                ![t].handle = objs[o].db]
       /\ microtasks' = Append(microtasks, Job(t, "cont", o, 0))
       /\ UNCHANGED engine

\* A variant of Strict that provisions every name.
NeverStrict(ap) == FALSE

\* InstancePool.getOrCreate, line 208: unknown names are refused.
Strict(ap) == ~ap

\* A variant of AtCapacity that admits one instance more.
OverCapacity(size, max) == size > max

\* InstancePool.getOrCreate, line 195: the capacity test for a new name.
AtCapacity(size, max) == size >= max

\* A variant of GetOrCreate that constructs and adds the instance of a new
\* name before it tests the capacity and the provisioning mode.
GetOrCreateInsertFirst(t, k, n) ==
  LET started == [task EXCEPT ![t] = [NoTask EXCEPT !.kind = k, !.name = n]]
  IN
  IF instances[n] = 0
  THEN /\ Cardinality(Created) < MaxObjs
       /\ LET o == Cardinality(Created) + 1 IN
          /\ instances' = [instances EXCEPT ![n] = o]
          /\ IF AtCapacity(PoolSize, maxInstances) \/ Strict(autoProvision)
             THEN /\ obj' = [obj EXCEPT ![o] = NewInstance(n)]
                  /\ task' = [started EXCEPT
                               ![t].pc = "done",
                               ![t].ret = IF AtCapacity(PoolSize, maxInstances)
                                          THEN "CapacityExceeded"
                                          ELSE "NotProvisioned"]
                  /\ UNCHANGED <<engine, microtasks>>
             ELSE Initialize(t, o, [obj EXCEPT ![o] = NewInstance(n)], started)
  ELSE /\ Initialize(t, instances[n], obj, started)
       /\ UNCHANGED instances

\* InstancePool.getOrCreate up to its first await, as the call t of kind k
\* for the name n.
GetOrCreate(t, k, n) ==
  LET started == [task EXCEPT ![t] = [NoTask EXCEPT !.kind = k, !.name = n]]
      fail(e) == /\ task' = [started EXCEPT ![t].pc = "done", ![t].ret = e]
                 /\ UNCHANGED <<instances, obj, engine, microtasks>>
  IN
  IF instances[n] = 0
  THEN IF AtCapacity(PoolSize, maxInstances)
       THEN fail("CapacityExceeded")
       ELSE IF Strict(autoProvision)
       THEN fail("NotProvisioned")
       ELSE /\ Cardinality(Created) < MaxObjs
            /\ LET o == Cardinality(Created) + 1 IN
               /\ instances' = [instances EXCEPT ![n] = o]
               /\ Initialize(t, o, [obj EXCEPT ![o] = NewInstance(n)], started)
  ELSE /\ Initialize(t, instances[n], obj, started)
       /\ UNCHANGED instances

\* A caller calls pool.getOrCreate(n).
CallGetOrCreate(n) ==
  /\ Cardinality(Started) < MaxTasks
  /\ GetOrCreate(Cardinality(Started) + 1, "getOrCreate", n)
  /\ UNCHANGED <<host, maxInstances, autoProvision, sock, timers>>

\* A caller calls pool.acquire(n, socket, timeout) with a socket of its own.
CallAcquire(n) ==
  /\ Cardinality(Started) < MaxTasks
  /\ GetOrCreate(Cardinality(Started) + 1, "acquire", n)
  /\ UNCHANGED <<host, maxInstances, autoProvision, sock, timers>>

\* The engine e fulfils waitReady: the initialize call that awaits it is
\* resumed by a job.
EngineReady(e) ==
  /\ engine[e] = "booting"
  /\ engine' = [engine EXCEPT ![e] = "ready"]
  /\ \E t \in Tasks :
       /\ task[t].pc = "initWait" /\ task[t].eng = e
       /\ task' = [task EXCEPT ![t].pc = "initResume"]
       /\ microtasks' = Append(microtasks, Job(t, "cont", task[t].obj, 0))
  /\ UNCHANGED <<host, maxInstances, autoProvision, instances, obj, sock, timers>>

\* The engine e rejects waitReady: the boot failed.
EngineFail(e) ==
  /\ engine[e] = "booting"
  /\ engine' = [engine EXCEPT ![e] = "failed"]
  /\ \E t \in Tasks :
       /\ task[t].pc = "initWait" /\ task[t].eng = e
       /\ task' = [task EXCEPT ![t].pc = "initThrow"]
       /\ microtasks' = Append(microtasks, Job(t, "cont", task[t].obj, 0))
  /\ UNCHANGED <<host, maxInstances, autoProvision, instances, obj, sock, timers>>

----------------------------------------------------------------------------
\* The promise job queue.
HeadIs(k, pc) ==
  /\ microtasks # <<>>
  /\ Head(microtasks).k = k
  /\ Head(microtasks).hops = 0
  /\ k = "cont" => task[Head(microtasks).t].pc = pc

\* A job that forwards a settled promise along its chain.
Hop ==
  /\ microtasks # <<>>
  /\ Head(microtasks).hops > 0
  /\ microtasks' = Append(Tail(microtasks),
                          [Head(microtasks) EXCEPT !.hops = @ - 1])
  /\ UNCHANGED <<host, maxInstances, autoProvision, instances, obj, engine, task,
                 sock, timers>>

\* ManagedInstance.initialize after await this.db.waitReady (lines 66-75):
\* emits 'initialized' and returns this.db as it is now.
InitResume ==
  /\ HeadIs("cont", "initResume")
  /\ LET t == Head(microtasks).t
         o == task[t].obj
     IN /\ obj' = [obj EXCEPT ![o].initEvents = @ + 1]
        /\ task' = [task EXCEPT ![t].pc = "gocResume", ![t].handle = obj[o].db]
        /\ microtasks' = Append(Tail(microtasks), Job(t, "cont", o, 0))
  /\ UNCHANGED <<host, maxInstances, autoProvision, instances, engine, sock, timers>>

\* ManagedInstance.initialize when await this.db.waitReady throws (line 64):
\* nothing catches, so initialize, getOrCreate and acquire reject in turn and
\* this.db keeps the handle stored at line 54 or 61.
InitThrow ==
  /\ HeadIs("cont", "initThrow")
  /\ LET t == Head(microtasks).t
     IN task' = [task EXCEPT ![t].pc = "done", ![t].ret = "EngineBootFailure"]
  /\ microtasks' = Tail(microtasks)
  /\ UNCHANGED <<host, maxInstances, autoProvision, instances, obj, engine, sock,
                 timers>>

\* InstancePool.getOrCreate after await instance.initialize() (line 230):
\* returns the instance.  A getOrCreate call is complete; an acquire call
\* continues one job later.
GocResume ==
  /\ HeadIs("cont", "gocResume")
  /\ LET t == Head(microtasks).t
     IN IF task[t].kind = "acquire"
        THEN /\ task' = [task EXCEPT ![t].pc = "acqResume"]
             /\ microtasks' = Append(Tail(microtasks),
                                     Job(t, "cont", task[t].obj, 0))
        ELSE /\ task' = [task EXCEPT ![t].pc = "done", ![t].ret = "instance"]
             /\ microtasks' = Tail(microtasks)
  /\ UNCHANGED <<host, maxInstances, autoProvision, instances, obj, engine, sock,
                 timers>>

\* ManagedInstance.lock(socket) for the call t on the object o: the new
\* object and socket tables, or the thrown error.
CanLock(o) == ~obj[o].locked

\* A variant of LockObj that does not store the holder.
LockNoHolder(t, o) == [obj EXCEPT ![o].locked = TRUE]

LockObj(t, o) == [obj EXCEPT ![o].locked = TRUE, ![o].activeSocket = t]

LockSock(t, o) == [sock EXCEPT ![t].onClose = o, ![t].onError = o]

\* A variant of Enqueue that puts the new entry at the head.
EnqueueFront(q, t) == <<t>> \o q

\* ManagedInstance.waitForFree, lines 130-136: the new entry goes to the tail.
Enqueue(q, t) == Append(q, t)

\* InstancePool.acquire after await this.getOrCreate(dbName) (lines 241-248):
\* a locked instance sends the call to waitForFree, which arms the timer,
\* queues the entry and returns the pending promise; a free instance is
\* locked to the socket at once.
AcqResume ==
  /\ HeadIs("cont", "acqResume")
  /\ LET t == Head(microtasks).t
         o == task[t].obj
     IN IF obj[o].locked
        THEN /\ obj' = [obj EXCEPT ![o].queue = Enqueue(@, t)]
             /\ timers' = timers \cup {t}
             /\ task' = [task EXCEPT ![t].pc = "waiting",
                                     ![t].enq = NextTicket([u \in Tasks |-> task[u].enq])]
             /\ microtasks' = Append(Tail(microtasks), Job(t, "then", o, 0))
             /\ UNCHANGED sock
        ELSE /\ obj' = LockObj(t, o)
             /\ sock' = LockSock(t, o)
             /\ task' = [task EXCEPT ![t].pc = "done", ![t].ret = "granted",
                                     ![t].grant = NextTicket([u \in Tasks |-> task[u].grant])]
             /\ microtasks' = Tail(microtasks)
             /\ UNCHANGED timers
  /\ UNCHANGED <<host, maxInstances, autoProvision, instances, engine>>

\* The job that chains the promise of the async function waitForFree to the
\* promise it returned (line 123): if that promise is settled already, the
\* forwarding job is queued now.
ThenJob ==
  /\ HeadIs("then", "any")
  /\ LET t == Head(microtasks).t
     IN /\ task' = [task EXCEPT ![t].chained = TRUE]
        /\ microtasks' =
             IF task[t].pc \in {"promoted", "timedOut"}
             THEN Append(Tail(microtasks), Job(t, "cont", task[t].obj, 1))
             ELSE Tail(microtasks)
  /\ UNCHANGED <<host, maxInstances, autoProvision, instances, obj, engine, sock,
                 timers>>

\* InstancePool.acquire after await instance.waitForFree(timeout) was
\* fulfilled (line 247): lock(socket), which throws on a locked instance.
LockResume ==
  /\ HeadIs("cont", "promoted")
  /\ LET t == Head(microtasks).t
         o == task[t].obj
     IN IF CanLock(o)
        THEN /\ obj' = LockObj(t, o)
             /\ sock' = LockSock(t, o)
             /\ task' = [task EXCEPT ![t].pc = "done", ![t].ret = "granted",
                                     ![t].grant = NextTicket([u \in Tasks |-> task[u].grant])]
        ELSE /\ task' = [task EXCEPT ![t].pc = "done", ![t].ret = "AlreadyLocked"]
             /\ UNCHANGED <<obj, sock>>
  /\ microtasks' = Tail(microtasks)
  /\ UNCHANGED <<host, maxInstances, autoProvision, instances, engine, timers>>

\* InstancePool.acquire when await instance.waitForFree(timeout) throws the
\* busy error of line 127.
BusyResume ==
  /\ HeadIs("cont", "timedOut")
  /\ LET t == Head(microtasks).t
     IN task' = [task EXCEPT ![t].pc = "done", ![t].ret = "Busy"]
  /\ microtasks' = Tail(microtasks)
  /\ UNCHANGED <<host, maxInstances, autoProvision, instances, obj, engine, sock,
                 timers>>

----------------------------------------------------------------------------
\* ManagedInstance.unlock, lines 109-112: the entry that is resolved.
NextWaiter(q) == Head(q)

\* A variant of Shift that leaves the resolved entry in the queue.
KeepHead(q) == q

\* ManagedInstance.unlock, line 110: the queue after the shift.
Shift(q) == Tail(q)

\* ManagedInstance.unlock on the object o: clears the lock and the holder and
\* resolves the head of the queue, whose resolve clears its timer (line 132).
UnlockObj(o) ==
  [obj EXCEPT ![o].locked = FALSE, ![o].activeSocket = 0,
              ![o].queue = IF @ = <<>> THEN @ ELSE Shift(@)]

Unlock(o) ==
  /\ obj' = UnlockObj(o)
  /\ IF obj[o].queue = <<>>
     THEN UNCHANGED <<task, timers, microtasks>>
     ELSE LET w == NextWaiter(obj[o].queue) IN
          /\ task' = [task EXCEPT ![w].pc = "promoted"]
          /\ timers' = timers \ {w}
          /\ microtasks' = IF task[w].chained
                           THEN Append(microtasks, Job(w, "cont", o, 1))
                           ELSE microtasks

\* The socket s emits 'close': the listener that lock registered with
\* once('close') runs unlock and is removed (lines 91-92).
SocketClose(s) ==
  /\ task[s].kind = "acquire"
  /\ ~sock[s].closed
  /\ sock' = [sock EXCEPT ![s].closed = TRUE, ![s].onClose = 0]
  /\ IF sock[s].onClose # 0
     THEN Unlock(sock[s].onClose)
     ELSE UNCHANGED <<obj, task, timers, microtasks>>
  /\ UNCHANGED <<host, maxInstances, autoProvision, instances, engine>>

\* The socket s emits 'error': the listener that lock registered with
\* once('error') runs unlock and is removed (lines 91, 93).
SocketError(s) ==
  /\ task[s].kind = "acquire"
  /\ ~sock[s].errored
  /\ sock' = [sock EXCEPT ![s].errored = TRUE, ![s].onError = 0]
  /\ IF sock[s].onError # 0
     THEN Unlock(sock[s].onError)
     ELSE UNCHANGED <<obj, task, timers, microtasks>>
  /\ UNCHANGED <<host, maxInstances, autoProvision, instances, engine>>

\* A variant of RemoveEntry that leaves the entry in the queue.
KeepEntry(q, t) == q

\* ManagedInstance.waitForFree, lines 125-126: the queue without the entry of
\* the call t.
RemoveEntry(q, t) == SelectSeq(q, LAMBDA x : x # t)

\* The timer of the waiting call t fires (lines 124-128): its entry leaves the
\* queue and its promise is rejected with the busy error.
Timeout(t) ==
  /\ microtasks = <<>>
  /\ t \in timers
  /\ timers' = timers \ {t}
  /\ obj' = [obj EXCEPT ![task[t].obj].queue = RemoveEntry(@, t)]
  /\ task' = [task EXCEPT ![t].pc = "timedOut"]
  /\ microtasks' = IF task[t].chained
                   THEN Append(microtasks, Job(t, "cont", task[t].obj, 1))
                   ELSE microtasks
  /\ UNCHANGED <<host, maxInstances, autoProvision, instances, engine, sock>>

----------------------------------------------------------------------------
\* The objects of the set S in ascending order, the order in which the Map
\* this.instances iterates them (objects are numbered as they are inserted).
Ascending(S) == SelectSeq([i \in 1..MaxObjs |-> i], LAMBDA o : o \in S)

\* A variant of HasHandle with which close() never tears the engine down.
NoHandle(d) == FALSE

\* ManagedInstance.close, line 144: db.close() is awaited only with a handle.
HasHandle(d) == d # 0

\* ManagedInstance.getStats (lines 161-169) of the object o; uptime and
\* lastAccess are clock readings.
getStats(o) ==
  [dbName |-> obj[o].name, locked |-> obj[o].locked,
   queueLength |-> Len(obj[o].queue)]

\* A variant of Cleared that keeps the handle.
Kept(d) == d

\* The engine handles stored by the objects of S.
Handles(S) == {obj[o].db : o \in S} \ {0}

\* ManagedInstance.close, line 154: the handle after close.
Cleared(d) == 0

\* A caller calls pool.closeInstance(n) (lines 268-274): an absent name ends
\* the call; otherwise close() runs up to await this.db.close(), or, without
\* a handle, to its end (lines 154-155).
CallCloseInstance(n) ==
  /\ Cardinality(Started) < MaxTasks
  /\ LET t == Cardinality(Started) + 1
         o == instances[n]
         started == [task EXCEPT ![t] = [NoTask EXCEPT !.kind = "closeInstance",
                                                       !.name = n, !.obj = o,
                                                       !.had = Handles({o} \ {0})]]
     IN IF o = 0
        THEN /\ task' = [started EXCEPT ![t].pc = "done", ![t].ret = "void"]
             /\ UNCHANGED <<obj, microtasks>>
        ELSE IF HasHandle(obj[o].db)
        THEN /\ task' = [started EXCEPT ![t].pc = "closeWait",
                                        ![t].cw = {<<o, obj[o].db>>}]
             /\ obj' = [obj EXCEPT ![o].closeCalled = TRUE]
             /\ UNCHANGED microtasks
        ELSE /\ task' = [started EXCEPT ![t].pc = "ciResume"]
             /\ obj' = [obj EXCEPT ![o].closeCalled = TRUE,
                                   ![o].db = Cleared(@)]
             /\ microtasks' = Append(microtasks, Job(t, "cont", o, 0))
  /\ UNCHANGED <<host, maxInstances, autoProvision, instances, engine, sock, timers>>

\* A caller that holds the instance o, which getOrCreate or get returned,
\* calls o.close() (lines 143-156).
CallClose(o) ==
  /\ Cardinality(Started) < MaxTasks
  /\ o \in Created
  /\ LET t == Cardinality(Started) + 1
         started == [task EXCEPT ![t] = [NoTask EXCEPT !.kind = "close",
                                                       !.name = obj[o].name,
                                                       !.obj = o,
                                                       !.had = Handles({o})]]
     IN IF HasHandle(obj[o].db)
        THEN /\ task' = [started EXCEPT ![t].pc = "closeWait",
                                        ![t].cw = {<<o, obj[o].db>>}]
             /\ obj' = [obj EXCEPT ![o].closeCalled = TRUE]
        ELSE /\ task' = [started EXCEPT ![t].pc = "done", ![t].ret = "void"]
             /\ obj' = [obj EXCEPT ![o].closeCalled = TRUE,
                                   ![o].db = Cleared(@)]
  /\ UNCHANGED <<host, maxInstances, autoProvision, instances, engine, sock, timers,
                 microtasks>>

\* A caller calls pool.closeAll() (lines 279-283): close() starts on every
\* instance of the pool, and Promise.all waits for all of them.
CallCloseAll ==
  /\ Cardinality(Started) < MaxTasks
  /\ LET t == Cardinality(Started) + 1
         S == {instances[n] : n \in DbNames} \ {0}
         W == {o \in S : HasHandle(obj[o].db)}
         done == Ascending(S \ W)
     IN /\ obj' = [o \in Objs |->
                     IF o \in S
                     THEN [obj[o] EXCEPT !.closeCalled = TRUE,
                                         !.db = IF o \in W THEN @ ELSE Cleared(@)]
                     ELSE obj[o]]
        /\ task' = [task EXCEPT ![t] =
                      [NoTask EXCEPT !.kind = "closeAll",
                                     !.pc = IF S = {} THEN "caResume" ELSE "caWait",
                                     !.cw = {<<o, obj[o].db>> : o \in W},
                                     !.had = Handles(S),
                                     !.pend = S]]
        /\ microtasks' =
             IF S = {}
             THEN Append(microtasks, Job(t, "cont", 0, 0))
             ELSE microtasks \o [i \in 1..Len(done) |-> Job(t, "elem", done[i], 0)]
  /\ UNCHANGED <<host, maxInstances, autoProvision, instances, engine, sock, timers>>

\* The engine e completes the db.close() that the call t awaits for the
\* object o (line 146); an error it throws is caught (lines 147-151).  The
\* engine ends its boot before it closes.
CloseDone(t, o, e) ==
  /\ <<o, e>> \in task[t].cw
  /\ engine[e] # "booting"
  /\ engine' = [engine EXCEPT ![e] = "closed"]
  /\ task' = [task EXCEPT ![t].cw = @ \ {<<o, e>>}]
  /\ microtasks' = Append(microtasks, Job(t, "closed", o, 0))
  /\ UNCHANGED <<host, maxInstances, autoProvision, instances, obj, sock, timers>>

\* ManagedInstance.close after await this.db.close() (lines 154-155): clears
\* this.db and emits 'closed'; the promise of close() is fulfilled.
CloseResume ==
  /\ HeadIs("closed", "any")
  /\ LET t == Head(microtasks).t
         o == Head(microtasks).o
     IN /\ obj' = [obj EXCEPT ![o].db = Cleared(@)]
        /\ IF task[t].kind = "closeInstance"
           THEN /\ task' = [task EXCEPT ![t].pc = "ciResume"]
                /\ microtasks' = Append(Tail(microtasks), Job(t, "cont", o, 0))
           ELSE IF task[t].kind = "close"
           THEN /\ task' = [task EXCEPT ![t].pc = "done", ![t].ret = "void"]
                /\ microtasks' = Tail(microtasks)
           ELSE /\ microtasks' = Append(Tail(microtasks), Job(t, "elem", o, 0))
                /\ UNCHANGED task
  /\ UNCHANGED <<host, maxInstances, autoProvision, instances, engine, sock, timers>>

\* InstancePool.closeInstance after await instance.close() (line 272).
CiResume ==
  /\ HeadIs("cont", "ciResume")
  /\ LET t == Head(microtasks).t
     IN /\ instances' = [instances EXCEPT ![task[t].name] = 0]
        /\ task' = [task EXCEPT ![t].pc = "done", ![t].ret = "void"]
  /\ microtasks' = Tail(microtasks)
  /\ UNCHANGED <<host, maxInstances, autoProvision, obj, engine, sock, timers>>

\* Promise.all in closeAll (line 281): one close() promise was fulfilled;
\* after the last one the await is resumed.
ElemJob ==
  /\ HeadIs("elem", "any")
  /\ LET t == Head(microtasks).t
         left == task[t].pend \ {Head(microtasks).o}
     IN IF left = {}
        THEN /\ task' = [task EXCEPT ![t].pend = left, ![t].pc = "caResume"]
             /\ microtasks' = Append(Tail(microtasks), Job(t, "cont", 0, 0))
        ELSE /\ task' = [task EXCEPT ![t].pend = left]
             /\ microtasks' = Tail(microtasks)
  /\ UNCHANGED <<host, maxInstances, autoProvision, instances, obj, engine, sock,
                 timers>>

\* InstancePool.closeAll after await Promise.all(promises) (line 282).
CaResume ==
  /\ HeadIs("cont", "caResume")
  /\ LET t == Head(microtasks).t
     IN /\ instances' = [n \in DbNames |-> 0]
        /\ task' = [task EXCEPT ![t].pc = "done", ![t].ret = "void"]
  /\ microtasks' = Tail(microtasks)
  /\ UNCHANGED <<host, maxInstances, autoProvision, obj, engine, sock, timers>>

----------------------------------------------------------------------------
\* The names the callers of a specification use.
OneName == {"a"}

\* The calls made from outside, for the names of N.
Calls(N) ==
  \/ \E n \in N : CallGetOrCreate(n)
  \/ \E n \in N : CallAcquire(n)
  \/ \E n \in N : CallCloseInstance(n)
  \/ CallCloseAll

\* The events of the engines, the sockets and the timers.
Events ==
  \/ \E e \in Engines : EngineReady(e)
  \/ \E e \in Engines : EngineFail(e)
  \/ \E s \in Tasks : SocketClose(s)
  \/ \E s \in Tasks : SocketError(s)
  \/ \E t \in Tasks : Timeout(t)
  \/ \E t \in Tasks, o \in Objs, e \in Engines : CloseDone(t, o, e)

\* The jobs of the promise job queue.
Jobs ==
  \/ Hop
  \/ InitResume
  \/ InitThrow
  \/ GocResume
  \/ AcqResume
  \/ ThenJob
  \/ LockResume
  \/ BusyResume
  \/ CloseResume
  \/ CiResume
  \/ ElemJob
  \/ CaResume

Next == Calls(OneName) \/ Events \/ Jobs

Spec == Init /\ [][Next]_vars

\* The pool with callers that use both names and that also close the
\* instances they hold.
PoolNext ==
  \/ Calls(DbNames)
  \/ \E o \in Objs : CallClose(o)
  \/ Events
  \/ Jobs

PoolSpec == Init /\ [][PoolNext]_vars

----------------------------------------------------------------------------
\* The registry (part_001) and the port allocator (part_000).  Every
\* registry function reads and writes the file synchronously, so it is one
\* step; allocatePort is suspended at each await isPortFree(port).

\* A variant of loadRegistry that reads whatever the file held last.
loadRegistryAny(f) == f.instances

\* loadRegistry (part_001, lines 20-34): a missing file and a file that
\* JSON.parse rejects both give the empty registry.
loadRegistry(f) == IF f.state = "ok" THEN f.instances ELSE NoEntries

\* saveRegistry (lines 39-42): the file holds the registry written.
saveRegistry(insts) == [state |-> "ok", instances |-> insts]

\* A variant of registerInstance that writes the new entry alone.
registerAlone(f, d, p, pid) ==
  saveRegistry([NoEntries EXCEPT ![d] = [port |-> p, pid |-> pid]])

\* registerInstance (lines 47-58).
registerInstance(f, d, p, pid) ==
  saveRegistry([loadRegistry(f) EXCEPT ![d] = [port |-> p, pid |-> pid]])

\* unregisterInstance (lines 63-67).
unregisterInstance(f, d) ==
  saveRegistry([loadRegistry(f) EXCEPT ![d] = NoEntry])

\* isProcessRunning (lines 106-113): process.kill(pid, 0) succeeds.
isProcessRunning(pid) == pid \in alive

\* The entries cleanupStaleInstances deletes (lines 122-127).
Stale(insts) ==
  {d \in DataDirs : insts[d] # NoEntry /\ ~isProcessRunning(insts[d].pid)}

\* A variant of cleanupStaleInstances that writes the file in every case.
cleanupAlwaysSaves(f) ==
  saveRegistry([d \in DataDirs |->
                  IF d \in Stale(loadRegistry(f)) THEN NoEntry
                  ELSE loadRegistry(f)[d]])

\* cleanupStaleInstances (lines 118-134): the file is written only when an
\* entry was deleted.
cleanupStaleInstances(f) ==
  LET insts == loadRegistry(f)
  IN IF Cardinality(Stale(insts)) > 0
     THEN saveRegistry([d \in DataDirs |->
                          IF d \in Stale(insts) THEN NoEntry ELSE insts[d]])
     ELSE f

\* A variant of Running for which every process is dead.
NeverRunning(pid) == FALSE

\* allocatePort, lines 61-65: process.kill(existing.pid, 0) succeeds.
Running(pid) == pid \in alive

\* A variant of isPortInRegistry that sees only entries of live processes.
isPortInRegistryLive(f, p) ==
  \E d \in DataDirs : loadRegistry(f)[d].port = p /\ Running(loadRegistry(f)[d].pid)

\* isPortInRegistry (part_000, lines 34-44): some entry, of a live or of a
\* dead process, claims the port.
isPortInRegistry(f, p) ==
  \E d \in DataDirs : loadRegistry(f)[d] # NoEntry /\ loadRegistry(f)[d].port = p

\* A variant of InRange without the upper limit.
InRangeFromStart(p) == p >= PORT_RANGE_START

\* allocatePort, line 73: the preferred port lies in the range.
InRange(p) == ~(p < PORT_RANGE_START \/ p > PORT_RANGE_END)

\* The ports that the probe servers of processes other than c have bound.
HeldByOthers(c) == {call[k].held : k \in Callers \ {c}} \ {0}

\* The calls of the processes other than c, with the change of the
\* surroundings recorded.
Disturbed(calls, c) ==
  [k \in Callers |->
     IF k = c \/ calls[k].pc = "idle"
     THEN calls[k]
     ELSE [calls[k] EXCEPT !.quiet = FALSE]]

\* A variant of NextOpen that scans the range downwards.
LastOpen(from) ==
  IF from..PORT_RANGE_END \subseteq foreign
  THEN 0
  ELSE CHOOSE p \in from..PORT_RANGE_END :
         p \notin foreign /\ (p + 1)..PORT_RANGE_END \subseteq foreign

\* The loop of allocatePort (lines 87-91) from the port from on, up to the
\* first port that no other program has bound (0: the loop ends).  The
\* ports of other programs stay bound, so isPortFree resolves false for
\* them whatever else happens; the iterations over them are not steps of
\* their own.
NextOpen(from) ==
  IF from..PORT_RANGE_END \subseteq foreign
  THEN 0
  ELSE CHOOSE p \in from..PORT_RANGE_END :
         p \notin foreign /\ from..(p - 1) \subseteq foreign

\* allocatePort continues the call rec with the loop from the port from on:
\* it awaits the probe of the next candidate, or throws at the end of the
\* range (lines 87-96).
Scan(rec, from) ==
  IF NextOpen(from) = 0
  THEN [rec EXCEPT !.pc = "done", !.ret = "RangeExhausted", !.cand = 0]
  ELSE [rec EXCEPT !.pc = "listen", !.phase = "scan", !.cand = NextOpen(from)]

\* The process c calls allocatePort(d, pref) (lines 54-97), up to the first
\* await: a live entry of d gives its port; a preferred port outside the
\* range throws; otherwise the probe of the preferred port, or of the first
\* candidate of the range, is awaited.
allocatePort(c, d, pref) ==
  /\ c \in alive
  /\ call[c].pc \in {"idle", "done"}
  /\ LET existing == loadRegistry(regFile)[d]
         rec == [NoCall EXCEPT !.dir = d, !.pref = pref, !.quiet = TRUE]
     IN call' = [call EXCEPT ![c] =
          IF existing # NoEntry /\ Running(existing.pid)
          THEN [rec EXCEPT !.pc = "done", !.ret = "port",
                           !.port = existing.port, !.phase = "attach"]
          ELSE IF pref # <<>>
          THEN IF ~InRange(pref[1])
               THEN [rec EXCEPT !.pc = "done", !.ret = "OutOfRange"]
               ELSE [rec EXCEPT !.pc = "listen", !.phase = "pref",
                                !.cand = pref[1]]
          ELSE Scan(rec, PORT_RANGE_START)]
  /\ UNCHANGED <<pool, regFile, alive, foreign, cleaned>>

\* isPortFree (lines 10-29), server.listen(port, '127.0.0.1'): the bind of
\* the probe server succeeds when nobody has bound the port.
ProbeListen(c) ==
  /\ call[c].pc = "listen"
  /\ LET free == call[c].cand \notin foreign \cup HeldByOthers(c)
     IN call' = IF free
                THEN [Disturbed(call, c) EXCEPT ![c].pc = "probed",
                                                ![c].held = call[c].cand]
                ELSE [call EXCEPT ![c].pc = "probed"]
  /\ UNCHANGED <<pool, regFile, alive, foreign, cleaned>>

\* isPortFree resolves: on 'listening' the probe server is closed and the
\* result is true, on 'error' it is false.  allocatePort goes on (lines 79-91):
\* a free port that no registry entry claims is returned, otherwise the loop
\* starts, or goes on with the next port.
ProbeDone(c) ==
  /\ call[c].pc = "probed"
  /\ LET free == call[c].held # 0
         rec == [call[c] EXCEPT !.held = 0]
         others == IF free THEN Disturbed(call, c) ELSE call
     IN call' = [others EXCEPT ![c] =
          IF free /\ ~isPortInRegistry(regFile, call[c].cand)
          THEN [rec EXCEPT !.pc = "done", !.ret = "port", !.port = call[c].cand,
                           !.cand = 0]
          ELSE IF call[c].phase = "pref"
          THEN Scan(rec, PORT_RANGE_START)
          ELSE Scan(rec, call[c].cand + 1)]
  /\ UNCHANGED <<pool, regFile, alive, foreign, cleaned>>

\* The process c registers the port that allocatePort returned to it for
\* the data directory of the call, under its own pid.
CallRegister(c) ==
  /\ c \in alive
  /\ call[c].pc = "done" /\ call[c].ret = "port"
  /\ regFile' = registerInstance(regFile, call[c].dir, call[c].port, c)
  /\ call' = IF regFile' = regFile THEN call ELSE Disturbed(call, 0)
  /\ UNCHANGED <<pool, alive, foreign, cleaned>>

\* A process unregisters the data directory d.
CallUnregister(d) ==
  /\ alive # {}
  /\ regFile' = unregisterInstance(regFile, d)
  /\ call' = IF regFile' = regFile THEN call ELSE Disturbed(call, 0)
  /\ UNCHANGED <<pool, alive, foreign, cleaned>>

\* A process calls cleanupStaleInstances() and drops what it returns.
CallCleanup ==
  /\ alive # {}
  /\ regFile' = cleanupStaleInstances(regFile)
  /\ call' = IF regFile' = regFile THEN call ELSE Disturbed(call, 0)
  /\ UNCHANGED <<pool, alive, foreign, cleaned>>

\* The process c ends without unregistering: its call is gone and the port
\* of its probe server is released.
ProcessDies(c) ==
  /\ c \in alive
  /\ alive' = alive \ {c}
  /\ call' = [Disturbed(call, c) EXCEPT ![c] = NoCall]
  /\ UNCHANGED <<pool, regFile, foreign, cleaned>>

\* The preferred ports the callers pass: none, one below and one above the
\* range, and one inside.
Prefs == {<<>>, <<PORT_RANGE_START - 1>>, <<PORT_RANGE_END + 1>>,
          <<PORT_RANGE_START + 5>>}

\* The sets of ports that other programs have bound: none, the first six
\* ports of the range, and the whole range.
ForeignSets == {{}, PORT_RANGE_START..(PORT_RANGE_START + 5), PortRange}

RegNext ==
  \/ \E c \in Callers, d \in DataDirs, pref \in Prefs : allocatePort(c, d, pref)
  \/ \E c \in Callers : ProbeListen(c)
  \/ \E c \in Callers : ProbeDone(c)
  \/ \E c \in Callers : CallRegister(c)
  \/ \E d \in DataDirs : CallUnregister(d)
  \/ CallCleanup
  \/ \E c \in Callers : ProcessDies(c)

\* The host with a pool that nobody uses.
RegInit ==
  /\ HostInit(ForeignSets)
  /\ maxInstances = 1
  /\ autoProvision = TRUE
  /\ instances = [n \in DbNames |-> 0]
  /\ obj = [o \in Objs |-> NoInstance]
  /\ engine = [e \in Engines |-> "none"]
  /\ task = [t \in Tasks |-> NoTask]
  /\ sock = [t \in Tasks |-> NoSock]
  /\ timers = {}
  /\ microtasks = <<>>

RegSpec == RegInit /\ [][RegNext]_vars

----------------------------------------------------------------------------
\* The registry functions on a file that can be lost, and their results.

\* findInstanceByDataDir (part_001, lines 72-75); NoEntry stands for null.
findInstanceByDataDir(f, d) == loadRegistry(f)[d]

\* findInstanceByPort (lines 80-90) returns the first entry, in the order
\* of the keys of the file, that claims the port p, or null: the data
\* directories of the entries it can return (none: null).
findInstanceByPort(f, p) ==
  {d \in DataDirs : loadRegistry(f)[d] # NoEntry /\ loadRegistry(f)[d].port = p}

\* listInstances (lines 95-101).
listInstances(f) ==
  {[dataDir |-> d, port |-> loadRegistry(f)[d].port,
    pid |-> loadRegistry(f)[d].pid] :
     d \in {x \in DataDirs : loadRegistry(f)[x] # NoEntry}}

\* A process calls cleanupStaleInstances() and keeps the number returned,
\* the counter of the entries deleted (lines 120-133).
CleanupKept ==
  /\ alive # {}
  /\ regFile' = cleanupStaleInstances(regFile)
  /\ cleaned' = [n |-> Cardinality(Stale(loadRegistry(regFile))),
                 tick |-> ~cleaned.tick]
  /\ call' = IF regFile' = regFile THEN call ELSE Disturbed(call, 0)
  /\ UNCHANGED <<pool, alive, foreign>>

\* The registry file is deleted (k = "missing"), or its text is damaged so
\* that JSON.parse rejects it (k = "corrupt"); of a damaged file the model
\* keeps the entries written last, which no reader may use.
FileLost(k) ==
  /\ regFile.state = "ok"
  /\ regFile' = [state |-> k,
                 instances |-> IF k = "corrupt" THEN regFile.instances
                               ELSE NoEntries]
  /\ call' = Disturbed(call, 0)
  /\ UNCHANGED <<pool, alive, foreign, cleaned>>

FileNext ==
  \/ \E c \in Callers, d \in DataDirs : allocatePort(c, d, <<>>)
  \/ \E c \in Callers : ProbeListen(c)
  \/ \E c \in Callers : ProbeDone(c)
  \/ \E c \in Callers : CallRegister(c)
  \/ \E d \in DataDirs : CallUnregister(d)
  \/ CleanupKept
  \/ \E c \in Callers : ProcessDies(c)
  \/ \E k \in {"missing", "corrupt"} : FileLost(k)

\* A host on which no other program has bound a port of the range, with a
\* pool that nobody uses.
FileInit ==
  /\ HostInit({{}})
  /\ maxInstances = 1
  /\ autoProvision = TRUE
  /\ instances = [n \in DbNames |-> 0]
  /\ obj = [o \in Objs |-> NoInstance]
  /\ engine = [e \in Engines |-> "none"]
  /\ task = [t \in Tasks |-> NoTask]
  /\ sock = [t \in Tasks |-> NoSock]
  /\ timers = {}
  /\ microtasks = <<>>

FileSpec == FileInit /\ [][FileNext]_vars

----------------------------------------------------------------------------
\* The call s was granted the object o and its socket has emitted no terminal
\* notification yet: s is a holder of o that has not been released.
Holds(s, o) ==
  /\ task[s].ret = "granted"
  /\ task[s].obj = o
  /\ ~sock[s].closed
  /\ ~sock[s].errored

\* The step is a terminal notification ('close' or 'error') of the socket s.
Notifies(s) ==
  \/ sock[s].closed # sock'[s].closed
  \/ sock[s].errored # sock'[s].errored

\* The lock state, the holder and the wait queue of every object.
LockState == [o \in Objs |-> <<obj[o].locked, obj[o].activeSocket, obj[o].queue>>]

\* The calls whose waitForFree promise was resolved by unlock.
Promoted == {t \in Tasks : task[t].pc = "promoted"}

\* C1: mutual exclusion: no object has two holders at once, that is, two
\* calls granted the same object whose sockets both have emitted neither
\* 'close' nor 'error'.
C1_MutualExclusion ==
  \A o \in Objs : Cardinality({s \in Tasks : Holds(s, o)}) <= 1

\* C2: release happens once per holder: a terminal notification of a socket
\* that has emitted a terminal notification before, or that is not the
\* current holder of any object, leaves the lock state, the holder and the
\* wait queue of every object unchanged and promotes no waiter.
C2_ReleaseOnce ==
  [][\A s \in Tasks :
       (/\ Notifies(s)
        /\ \/ sock[s].closed
           \/ sock[s].errored
           \/ \A o \in Objs : obj[o].activeSocket # s)
       => (LockState' = LockState /\ Promoted' = Promoted)]_vars

\* The calls waiting in the queue of the object o.
Waiting(o) == {t \in Tasks : task[t].pc = "waiting" /\ task[t].obj = o}

\* The entries of the queue q.
Entries(q) == {q[i] : i \in 1..Len(q)}

\* C3: first-in first-out grants: of two calls enqueued on the same object
\* that were both granted, the one enqueued first was granted first; and the
\* queue holds the waiting calls in the order of their enqueueing, so that
\* the head is the oldest waiter and a new waiter is the last entry.
C3_FifoGrant ==
  /\ \A a, b \in Tasks :
       (/\ task[a].obj = task[b].obj
        /\ task[a].enq > 0 /\ task[a].enq < task[b].enq
        /\ task[a].grant > 0 /\ task[b].grant > 0)
       => task[a].grant < task[b].grant
  /\ \A o \in Objs : \A i, j \in 1..Len(obj[o].queue) :
       i < j => task[obj[o].queue[i]].enq < task[obj[o].queue[j]].enq

\* Two calls were enqueued on one object and both were granted after waiting.
C3_Witness ==
  \E a, b \in Tasks :
    /\ task[a].obj = task[b].obj
    /\ task[a].enq > 0 /\ task[a].enq < task[b].enq
    /\ task[a].grant > 0 /\ task[b].grant > 0

Releases(o) ==
  \E s \in Tasks :
    \/ sock[s].closed # sock'[s].closed /\ sock[s].onClose = o
    \/ sock[s].errored # sock'[s].errored /\ sock[s].onError = o

\* The calls promoted on the object o whose lock(socket) has not run yet.
PromotedOn(o) == {t \in Promoted : task[t].obj = o}

\* A release on an object with waiting calls promotes exactly one of them
\* and takes its entry off the queue; a release on an object without waiting
\* calls promotes nobody.
PromotesOne ==
  \A o \in Objs :
    Releases(o) =>
      IF Waiting(o) # {}
      THEN /\ Cardinality(Promoted' \ Promoted) = 1
           /\ Promoted' \ Promoted \subseteq Waiting(o)
           /\ Len(obj'[o].queue) = Len(obj[o].queue) - 1
           /\ Promoted \subseteq Promoted'
      ELSE Promoted' = Promoted

\* A free object whose queue holds a waiting call has a promoted call about
\* to take the lock.
NotLeftFree ==
  \A o \in Objs :
    (~obj[o].locked /\ obj[o].queue # <<>>) => PromotedOn(o) # {}

C6_NoFreeWindow ==
  [][\A o \in Objs :
       (PromotedOn(o) # {} /\ ~obj[o].locked /\ obj'[o].locked)
       => obj'[o].activeSocket \in PromotedOn(o)]_vars

\* C7: every queued acquire ends granted or Busy: a call that was enqueued
\* and has ended either holds a grant or failed with the busy error of its
\* own timeout.
C7_QueuedEndsGrantedOrBusy ==
  \A t \in Tasks :
    (task[t].enq > 0 /\ task[t].pc = "done")
    => task[t].ret \in {"granted", "Busy"}

\* The calls to which initialize() on the object o has returned a handle.
Returned(o) ==
  {t \in Tasks : /\ task[t].obj = o
                 /\ task[t].kind \in {"getOrCreate", "acquire"}
                 /\ task[t].pc \notin {"initWait", "initResume", "initThrow"}
                 /\ task[t].ret # "EngineBootFailure"}

\* C8: initialize() boots once: on an object on which close() was never
\* called, at most one engine was constructed, at most one 'initialized'
\* event was emitted, and every initialize() call that returned returned the
\* handle of that one engine.
C8_BootsOnce ==
  \A o \in Objs :
    (obj[o].name # "none" /\ ~obj[o].closeCalled)
    => /\ obj[o].boots <= 1
       /\ obj[o].initEvents <= 1
       /\ \A t \in Returned(o) :
            task[t].handle # 0 /\ task[t].handle = obj[o].db /\ obj[o].boots = 1

\* Two initialize() calls on one object that was never closed have returned,
\* one of them the call that booted the engine.
C8_Witness ==
  \E o \in Objs : \E t, u \in Returned(o) :
    /\ ~obj[o].closeCalled
    /\ t # u
    /\ task[t].eng # 0
    /\ obj[o].initEvents = 1

\* C9: no caller receives a handle that is not booted: a handle that
\* initialize() or getOrCreate() has returned is not the handle of an engine
\* whose ready signal is still outstanding.
C9_NoUnbootedHandle ==
  \A t \in Tasks :
    (/\ task[t].pc = "gocResume" \/ task[t].ret = "instance"
     /\ task[t].handle # 0)
    => engine[task[t].handle] # "booting"

\* C10: a failed boot leaves the instance uninitialized: once the boot error
\* has reached the caller, the object does not store the handle of the failed
\* engine, and no later initialize() returns that handle.
C10_FailedBootCleared ==
  /\ \A t \in Tasks :
       task[t].ret = "EngineBootFailure" => obj[task[t].obj].db # task[t].eng
  /\ \A t \in Tasks :
       (task[t].pc = "gocResume" /\ task[t].handle # 0)
       => engine[task[t].handle] # "failed"

----------------------------------------------------------------------------
\* The call t is made in this step.
Called(t) == task[t].kind = "none" /\ task'[t].kind # "none"

\* The call t returns or throws in this step.
Ends(t) == task[t].pc # "done" /\ task'[t].pc = "done"

\* The call t is a getOrCreate, direct or inside acquire, made in this step
\* for a name that is not in the pool.
CalledForNew(t) ==
  /\ Called(t)
  /\ task'[t].kind \in {"getOrCreate", "acquire"}
  /\ instances[task'[t].name] = 0

\* A getOrCreate for a new name made at capacity fails with CapacityExceeded
\* and constructs and adds nothing.
RejectsAtCapacity ==
  \A t \in Tasks :
    (CalledForNew(t) /\ PoolSize >= maxInstances)
    => /\ task'[t].ret = "CapacityExceeded"
       /\ instances' = instances
       /\ obj' = obj
       /\ engine' = engine

\* C11: the capacity bound: in every reachable state the pool holds at most
\* maxInstances instances, and a getOrCreate for a new name made at capacity
\* fails with CapacityExceeded before an instance is constructed or added.
C11_CapacityBound ==
  /\ [](PoolSize <= maxInstances)
  /\ [][RejectsAtCapacity]_vars

\* A call was refused with CapacityExceeded by a full pool.
C11_Witness ==
  /\ PoolSize = maxInstances
  /\ \E t \in Tasks : task[t].ret = "CapacityExceeded"

\* When closeInstance or closeAll returns, every engine that an instance of
\* the call stored when it was called has finished its close, and the name
\* (for closeAll: every name) is out of the pool.
ClosedOnReturn ==
  \A t \in Tasks :
    (Ends(t) /\ task[t].kind \in {"closeInstance", "closeAll"})
    => /\ \A e \in task[t].had : engine'[e] = "closed"
       /\ task[t].kind = "closeInstance" => instances'[task[t].name] = 0
       /\ task[t].kind = "closeAll" => \A n \in DbNames : instances'[n] = 0

\* A getOrCreate for a new name made below capacity in a provisioning pool
\* is not refused.
AdmitsBelowCapacity ==
  \A t \in Tasks :
    (CalledForNew(t) /\ PoolSize < maxInstances /\ autoProvision)
    => task'[t].ret \notin {"CapacityExceeded", "NotProvisioned"}

\* C12: close completes the teardown and frees the slot before it returns:
\* at the return of closeInstance(name) the engine close of that instance has
\* finished and the name is out of the pool, at the return of closeAll()
\* the engine close of every instance has finished and the pool is empty,
\* and a slot freed in this way admits a new name.
C12_CloseFreesSlot == [][ClosedOnReturn /\ AdmitsBelowCapacity]_vars

\* With maxInstances = 1, closeInstance("a") tore an engine down and
\* returned, and getOrCreate("b") returned an instance.
C12_Witness ==
  /\ maxInstances = 1
  /\ \E t \in Tasks :
       /\ task[t].kind = "closeInstance" /\ task[t].name = "a"
       /\ task[t].pc = "done" /\ task[t].had # {}
  /\ \E t \in Tasks :
       /\ task[t].kind = "getOrCreate" /\ task[t].name = "b"
       /\ task[t].ret = "instance"

\* The errors of getOrCreate that acquire passes on before it touches a lock.
Refusals == {"CapacityExceeded", "NotProvisioned"}

\* An acquire that fails with one of the refusals was never enqueued, and
\* the failing step changes neither the pool nor the lock state, holder or
\* wait queue of any instance, and arms no timer.
RefusalChangesNothing ==
  \A t \in Tasks :
    (task'[t].kind = "acquire" /\ task'[t].ret \in Refusals
     /\ task[t].ret \notin Refusals)
    => /\ task'[t].enq = 0
       /\ instances' = instances
       /\ obj' = obj
       /\ LockState' = LockState
       /\ timers' = timers

\* C13: an acquire that fails with CapacityExceeded or NotProvisioned fails
\* without entering a wait queue and leaves the instances of the pool and the
\* lock state, holder and wait queue of every instance unchanged.
C13_RefusalFrame ==
  /\ [](\A t \in Tasks : task[t].ret \in Refusals => task[t].enq = 0)
  /\ [][RefusalChangesNothing]_vars

\* An acquire was refused while an instance is locked and has a waiter.
C13_Witness ==
  /\ \E t \in Tasks : task[t].kind = "acquire" /\ task[t].ret \in Refusals
  /\ \E o \in Objs : obj[o].locked /\ obj[o].queue # <<>>

\* A getOrCreate for a name that is not in the pool, made with
\* auto-provision disabled, fails with NotProvisioned.
StrictRefuses ==
  \A t \in Tasks :
    (CalledForNew(t) /\ ~autoProvision) => task'[t].ret = "NotProvisioned"

CloseClears ==
  \A t \in Tasks :
    (Ends(t) /\ task'[t].kind = "close") => obj'[task'[t].obj].db = 0

\* A close() called on an instance that a close() has left without a
\* handle tears no engine down and leaves the instance as it was.
SecondCloseIdle ==
  \A t \in Tasks :
    (/\ Called(t)
     /\ task'[t].kind = "close"
     /\ obj[task'[t].obj].closeCalled
     /\ obj[task'[t].obj].db = 0)
    => /\ task'[t].cw = {}
       /\ task'[t].pc = "done"
       /\ engine' = engine
       /\ obj' = obj

\* C15: close() is unconditional and idempotent: called in any lock state it
\* leaves the engine handle absent, and a second close() on the same instance
\* tears no engine down a second time and leaves the instance in the state
\* the first close() left.
C15_CloseIdempotent == [][CloseClears /\ SecondCloseIdle]_vars

\* Two close() calls on a locked instance ended; the first tore the engine
\* down, the second found no handle.
C15_Witness ==
  \E t1, t2 \in Tasks :
    /\ t1 < t2
    /\ task[t1].kind = "close" /\ task[t2].kind = "close"
    /\ task[t1].obj = task[t2].obj
    /\ task[t1].pc = "done" /\ task[t2].pc = "done"
    /\ task[t1].had # {} /\ task[t2].had = {}
    /\ obj[task[t1].obj].locked

----------------------------------------------------------------------------
\* The registry entry of the data directory d, and whether it is the entry
\* of a live process.
Entry(d) == loadRegistry(regFile)[d]
LiveEntry(d) == Entry(d) # NoEntry /\ Entry(d).pid \in alive

\* Some registry entry, of a live or of a dead process, claims the port p;
\* an entry of a dead process claims it.
Claimed(p) == \E d \in DataDirs : Entry(d) # NoEntry /\ Entry(d).port = p
StaleClaim(p) ==
  \E d \in DataDirs :
    Entry(d) # NoEntry /\ Entry(d).port = p /\ Entry(d).pid \notin alive

\* A probe bind of the port p succeeds, and no registry entry claims p.
Bindable(p) == p \notin foreign \cup {call[k].held : k \in Callers}
Free(p) == Bindable(p) /\ ~Claimed(p)

\* The process c makes an allocatePort call in this step.
Allocates(c) ==
  /\ call[c].pc \in {"idle", "done"}
  /\ call'[c] # call[c]
  /\ call'[c].quiet

\* A call for a data directory with a live entry returns the port of that
\* entry at once and leaves the registry file as it is.
Reattaches ==
  \A c \in Callers :
    (Allocates(c) /\ LiveEntry(call'[c].dir))
    => /\ call'[c].pc = "done"
       /\ call'[c].ret = "port"
       /\ call'[c].port = Entry(call'[c].dir).port
       /\ regFile' = regFile

\* C16: idempotent re-attach: while the registry holds an entry of a live
\* process for a name, every allocatePort call for the name returns the port
\* of that entry, whatever preferred port is passed, and does not change the
\* registry; so consecutive calls return the same port.
C16_Reattach ==
  /\ [][Reattaches]_vars
  /\ [](\A c \in Callers :
          (call[c].pc = "done" /\ call[c].quiet /\ LiveEntry(call[c].dir))
          => call[c].ret = "port" /\ call[c].port = Entry(call[c].dir).port)

\* Two calls for one data directory with a live entry, with different
\* preferred ports, one of them outside the range, returned the same port.
C16_Witness ==
  /\ call[1].pc = "done" /\ call[2].pc = "done"
  /\ call[1].quiet /\ call[2].quiet
  /\ call[1].dir = call[2].dir
  /\ LiveEntry(call[1].dir)
  /\ call[1].pref = <<PORT_RANGE_END + 1>>
  /\ call[2].pref = <<PORT_RANGE_START + 5>>
  /\ call[1].ret = "port" /\ call[2].ret = "port"
  /\ call[1].port = call[2].port

\* The call of the process c has ended, nothing around it has changed since
\* it was made, and its data directory has no entry of a live process.
Settled(c) ==
  /\ call[c].pc = "done"
  /\ call[c].quiet
  /\ ~LiveEntry(call[c].dir)

\* The call of the process c named a preferred port of the range that an
\* entry of a dead process claims.
PreferredIsStale(c) ==
  /\ Settled(c)
  /\ call[c].pref # <<>>
  /\ call[c].pref[1] \in PortRange
  /\ StaleClaim(call[c].pref[1])

\* The call of the process c ended as a scan of the whole range ends: with
\* the lowest free port of the range, or with RangeExhausted when the range
\* has no free port.
LowestFree(c) ==
  IF \E p \in PortRange : Free(p)
  THEN /\ call[c].ret = "port"
       /\ call[c].port \in PortRange
       /\ Free(call[c].port)
       /\ \A q \in PORT_RANGE_START..(call[c].port - 1) : ~Free(q)
  ELSE call[c].ret = "RangeExhausted"

\* C17 as stated: with an in-range preferred port p claimed by an entry of a
\* dead process, allocatePort returns a free port above p.
C17_NextAbovePreferred ==
  \A c \in Callers :
    PreferredIsStale(c)
    => IF \E q \in (call[c].pref[1] + 1)..PORT_RANGE_END : Free(q)
       THEN call[c].ret = "port" /\ call[c].port > call[c].pref[1]
       ELSE call[c].ret = "RangeExhausted"

\* C17, amended: with an in-range preferred port p claimed by an entry of a
\* dead process, allocatePort does not return p, even when p can be bound;
\* it returns the lowest free port of the whole range, which lies below p
\* when a port below p is free.
C17_StalePreferredSkipped ==
  \A c \in Callers :
    PreferredIsStale(c)
    => /\ LowestFree(c)
       /\ call[c].ret = "port" => call[c].port # call[c].pref[1]

\* A call with the preferred port 12005, which can be bound and which an
\* entry of a dead process claims, returned 12000.
C17_Witness ==
  \E c \in Callers :
    /\ PreferredIsStale(c)
    /\ call[c].pref = <<PORT_RANGE_START + 5>>
    /\ Bindable(PORT_RANGE_START + 5)
    /\ call[c].ret = "port"
    /\ call[c].port = PORT_RANGE_START

\* C18: fresh allocation: for a name without a live entry and without an
\* accepted preferred port, allocatePort returns the lowest port of
\* [12000,12999] that a probe can bind and that no registry entry claims,
\* or fails with RangeExhausted when the range has no such port; no
\* allocation returns a port outside the range.
C18_FreshAllocation ==
  /\ \A c \in Callers :
       (/\ Settled(c)
        /\ \/ call[c].pref = <<>>
           \/ call[c].pref[1] \in PortRange /\ ~Free(call[c].pref[1]))
       => LowestFree(c)
  /\ \A c \in Callers :
       (call[c].ret = "port" /\ call[c].phase # "attach")
       => call[c].port \in PortRange

\* A call without preferred port passed over the port 12000, which an entry
\* claims, and returned 12001.
C18_Witness ==
  \E c \in Callers :
    /\ Settled(c)
    /\ call[c].pref = <<>>
    /\ Claimed(PORT_RANGE_START)
    /\ call[c].ret = "port"
    /\ call[c].port = PORT_RANGE_START + 1

\* The call that the process c makes in this step names a preferred port
\* outside the range.
AllocatesOutside(c) ==
  /\ Allocates(c)
  /\ call'[c].pref # <<>>
  /\ call'[c].pref[1] \notin PortRange

\* C19 as stated: every allocatePort call with a preferred port outside
\* [12000,12999] fails with OutOfRange, in every registry state.
C19_OutsideAlwaysRejected ==
  [][\A c \in Callers :
       AllocatesOutside(c) => call'[c].ret = "OutOfRange"]_vars

\* A call with a preferred port outside the range fails with OutOfRange and
\* returns no port unless its name has an entry of a live process; then it
\* returns the port of the entry.
OutsideRejected ==
  \A c \in Callers :
    AllocatesOutside(c)
    => IF LiveEntry(call'[c].dir)
       THEN /\ call'[c].ret = "port"
            /\ call'[c].port = Entry(call'[c].dir).port
       ELSE /\ call'[c].pc = "done"
            /\ call'[c].ret = "OutOfRange"
            /\ call'[c].port = 0

\* C19, amended: an allocatePort call with a preferred port outside
\* [12000,12999] for a name without a live registry entry fails with
\* OutOfRange and returns no port; for a name with a live entry the
\* preferred port is not looked at and the port of the entry is returned.
C19_OutsideRejectedUnlessLive == [][OutsideRejected]_vars

\* Calls with a preferred port below and above the range were rejected.
C19_Witness ==
  /\ call[1].ret = "OutOfRange" /\ call[1].pref = <<PORT_RANGE_START - 1>>
  /\ call[2].ret = "OutOfRange" /\ call[2].pref = <<PORT_RANGE_END + 1>>

\* C20: registry uniqueness: the registry never holds entries of two live
\* processes that claim the same port.  (The registry is keyed by dataDir,
\* so it holds one entry per dataDir at most.)
C20_UniqueLivePort ==
  \A d1, d2 \in DataDirs :
    (d1 # d2 /\ LiveEntry(d1) /\ LiveEntry(d2)) => Entry(d1).port # Entry(d2).port

----------------------------------------------------------------------------
\* The lock flag and the holder of the object o.
LockPair(o) == <<obj[o].locked, obj[o].activeSocket>>

\* The step locks the object o for a call, or runs unlock for a socket
\* whose listeners lock registered on o.
LocksOrUnlocks(o) ==
  \/ \E t \in Tasks :
       task[t].ret # "granted" /\ task'[t].ret = "granted" /\ task'[t].obj = o
  \/ \E s \in Tasks : Notifies(s) /\ o \in {sock[s].onClose, sock[s].onError}

\* C24: holder and lock agree: in every reachable state an instance has a
\* holder exactly when it is locked, getStats reports that flag, and only
\* lock() and unlock() change the two; close(), initialize() and
\* waitForFree() change neither.
C24_HolderIffLocked ==
  /\ [](\A o \in Objs :
          /\ obj[o].locked <=> obj[o].activeSocket # 0
          /\ getStats(o).locked <=> obj[o].activeSocket # 0)
  /\ [][\A o \in Objs : LockPair(o)' # LockPair(o) => LocksOrUnlocks(o)]_vars

\* An instance on which close() was called is locked to a holder and has a
\* waiter.
C24_Witness ==
  \E o \in Objs :
    /\ obj[o].locked /\ obj[o].activeSocket # 0
    /\ obj[o].closeCalled
    /\ obj[o].queue # <<>>

\* C25: a granted acquire refers to a live engine: when acquire returns an
\* instance, at once or after waiting in the queue, the instance is in the
\* pool under its name and stores an engine handle.
C25_GrantedIsLive ==
  [][\A t \in Tasks :
       (task[t].ret # "granted" /\ task'[t].ret = "granted")
       => /\ instances'[task'[t].name] = task'[t].obj
          /\ obj'[task'[t].obj].db # 0]_vars

\* The engine e was constructed and has neither failed its boot nor been
\* closed.
Open(e) == engine[e] \in {"booting", "ready"}

\* C26: no orphaned or duplicate engine: every engine that was booted and
\* not closed is the handle of an instance that the pool holds, so every
\* name has one open engine at most and an empty pool has none.
C26_NoOrphanEngine ==
  \A e \in Engines :
    Open(e) => \E n \in DbNames :
                 instances[n] # 0 /\ obj[instances[n]].db = e

----------------------------------------------------------------------------
\* The process c can register: allocatePort has returned a port to it.
CanRegister(c) == c \in alive /\ call[c].pc = "done" /\ call[c].ret = "port"

\* The lookups on the file f find the entry of d with the port p and the
\* pid, and the entries of the other data directories as the file g has them.
FoundIn(f, g, d, p, pid) ==
  /\ findInstanceByDataDir(f, d) = [port |-> p, pid |-> pid]
  /\ d \in findInstanceByPort(f, p)
  /\ \A x \in findInstanceByPort(f, p) : findInstanceByDataDir(f, x).port = p
  /\ \A x \in DataDirs \ {d} :
       findInstanceByDataDir(f, x) = findInstanceByDataDir(g, x)

\* registerInstance, applied to the registry file as it is, gives a file
\* in which the lookups find the entry registered.
RoundTrip ==
  \A c \in Callers :
    CanRegister(c)
    => FoundIn(registerInstance(regFile, call[c].dir, call[c].port, c),
               regFile, call[c].dir, call[c].port, c)

\* A step that adds an entry or alters one is a registerInstance call of a
\* process, after which the lookups find what it registered.
RegisterStepExact ==
  \A d \in DataDirs :
    (findInstanceByDataDir(regFile, d)' # NoEntry
     /\ findInstanceByDataDir(regFile, d)' # findInstanceByDataDir(regFile, d))
    => \E c \in Callers :
         /\ CanRegister(c)
         /\ call[c].dir = d
         /\ FoundIn(regFile', regFile, d, call[c].port, c)

\* C21: register/lookup round trip: after registerInstance(name, port, pid)
\* findInstanceByDataDir(name) returns the port and the pid registered, also
\* when the name had an entry before, findInstanceByPort(port) returns an
\* entry that claims the port, and the entries of the other names are as
\* they were.
C21_RegisterRoundTrip ==
  /\ []RoundTrip
  /\ [][RegisterStepExact]_vars

\* The process 2 has registered d1, which the process 1 had registered
\* before, and d2 has an entry of its own.
C21_Witness ==
  /\ CanRegister(2)
  /\ call[2].dir = "d1"
  /\ findInstanceByDataDir(regFile, "d1") = [port |-> call[2].port, pid |-> 2]
  /\ call[1].dir = "d1" /\ call[1].ret = "port"
  /\ findInstanceByDataDir(regFile, "d2") # NoEntry

\* The data directories whose entry names a pid of no live process.
DeadEntries ==
  {d \in DataDirs :
     findInstanceByDataDir(regFile, d) # NoEntry
     /\ findInstanceByDataDir(regFile, d).pid \notin alive}

\* A cleanupStaleInstances call deletes the entries of dead processes and
\* no other, returns their number, and does not write the file when there
\* is none.
CleanupExact ==
  cleaned'.tick # cleaned.tick
  => /\ cleaned'.n = Cardinality(DeadEntries)
     /\ \A d \in DataDirs :
          findInstanceByDataDir(regFile, d)' =
            IF d \in DeadEntries THEN NoEntry
            ELSE findInstanceByDataDir(regFile, d)
     /\ DeadEntries = {} => regFile' = regFile

\* C22: stale cleanup: on a registry with N entries of which M name a pid
\* of no live process, cleanupStaleInstances() deletes those M entries,
\* returns M and leaves the entries of live processes as they are; with
\* M = 0 the file is not written.
C22_CleanupExact == [][CleanupExact]_vars

\* A cleanup returned 1; the entry of a live process is in the file and the
\* other data directory has no entry.
C22_Witness ==
  /\ cleaned.n = 1
  /\ cleaned.tick
  /\ \E d \in DataDirs :
       /\ LiveEntry(d)
       /\ \A x \in DataDirs \ {d} : findInstanceByDataDir(regFile, x) = NoEntry

\* The registry file with no entry.
EmptyFile == saveRegistry(NoEntries)

\* On a file that is missing or that JSON.parse rejects, loadRegistry gives
\* the empty registry, the lookups find nothing, and registerInstance,
\* unregisterInstance and cleanupStaleInstances do what they do on the
\* empty registry; cleanupStaleInstances does not write.
DegradesToEmpty ==
  regFile.state # "ok"
  => /\ loadRegistry(regFile) = NoEntries
     /\ listInstances(regFile) = {}
     /\ \A d \in DataDirs : findInstanceByDataDir(regFile, d) = NoEntry
     /\ \A p \in PortRange : findInstanceByPort(regFile, p) = {}
     /\ \A d \in DataDirs, c \in Callers :
          registerInstance(regFile, d, PORT_RANGE_START, c)
            = registerInstance(EmptyFile, d, PORT_RANGE_START, c)
     /\ \A d \in DataDirs :
          unregisterInstance(regFile, d) = unregisterInstance(EmptyFile, d)
     /\ cleanupStaleInstances(regFile) = regFile
     /\ Stale(loadRegistry(regFile)) = {}

\* An allocatePort call made on such a file finds no entry to re-attach to,
\* and a probe that ends on such a file finds no claim on its port.
AllocatesOnLostFile ==
  \A c \in Callers :
    regFile.state # "ok"
    => /\ Allocates(c) => call'[c].phase # "attach" /\ call'[c].pc = "listen"
       /\ (call[c].pc = "probed" /\ call'[c].pc = "done" /\ call[c].held # 0)
          => call'[c].ret = "port" /\ call'[c].port = call[c].cand

\* C23: read failures degrade to empty: on a missing file and on text that
\* cannot be parsed loadRegistry returns the empty registry, so the registry
\* functions and allocatePort complete and behave as on an empty registry.
C23_LostFileIsEmpty ==
  /\ []DegradesToEmpty
  /\ [][AllocatesOnLostFile]_vars

\* An allocatePort call on a damaged file, whose last entries claimed the
\* port 12000, returned 12000.
C23_Witness ==
  /\ regFile.state = "corrupt"
  /\ \E d \in DataDirs : regFile.instances[d].port = PORT_RANGE_START
  /\ \E c \in Callers :
       /\ call[c].pc = "done" /\ call[c].quiet
       /\ call[c].ret = "port" /\ call[c].port = PORT_RANGE_START

====
